---- MODULE Spec2Model ----
(***************************************************************************)
(* Model of the blog backend's credential and access-control core:         *)
(*   server/app/crud.mjs     the resource CRUD layer                       *)
(*   server/app/hashing.mjs  the credential service (bcrypt / randomBytes) *)
(*   server/routes/posts.mjs the /posts router                             *)
(* The relational store (the Sequelize models) and the route middleware    *)
(* are collaborators whose code is outside the modelled sources; they are  *)
(* modelled at their boundary.                                             *)
(***************************************************************************)
EXTENDS Integers, Sequences, FiniteSets, TLC

VARIABLES users, tokens, issued, resp, tags, updates, posts, walk, images, req

vars == <<users, tokens, issued, resp, tags, updates, posts, walk, images, req>>

(***************************************************************************)
(* Bounds                                                                  *)
(***************************************************************************)
MaxUsers == 2
MaxTokens == 2
NumSecrets == 3
NumSalts == 2
NumTags == 3
ForestTags == 4
MaxDepth == 5
MaxUpdates == 2

Usernames == {"alice", "bob"}
Names == {"n"}
Titles == {"t1"}

\* An absent row / JavaScript null.  Primary keys start at 1.
NULL == 0

(***************************************************************************)
(* Strings.  A string is a record: kind "hex" is the hexadecimal encoding  *)
(* of random bytes, kind "bcrypt" is a bcrypt hash string ($2b$...), kind  *)
(* "empty" is ''.  text identifies the random bytes (hex) or the plaintext *)
(* that was hashed (bcrypt).                                               *)
(***************************************************************************)
HexString(n) == [kind |-> "hex", salt |-> 0, text |-> n]

EmptyString == [kind |-> "empty", salt |-> 0, text |-> 0]

Secrets == {HexString(n) : n \in 1..NumSecrets}

Salts == 1..NumSalts

\* hashing.mjs hashPassword: bcrypt.hash(password, saltRounds); the salt is
\* drawn by bcrypt at every call.
hashPassword(password, salt) ==
    [kind |-> "bcrypt", salt |-> salt, text |-> password.text]

comparePasswords_plain(password, hash) == hash = password

\* hashing.mjs comparePasswords: bcrypt.compare(password, hash); a string
\* that is not a bcrypt hash (such as '') compares false.
comparePasswords(password, hash) ==
    /\ hash.kind = "bcrypt"
    /\ password.kind # "bcrypt"
    /\ hash.text = password.text

\* hashing.mjs randomPassword: 8 random bytes in hexadecimal.
randomPassword == Secrets

\* hashing.mjs createToken: 48 random bytes in hexadecimal.
hashingCreateToken == Secrets

(***************************************************************************)
(* The store (models/index.mjs): users, tokens                             *)
(***************************************************************************)
UserIds == 1..Len(users)

\* db.User.findOne({ where: { username } }): the id of the row, or NULL.
FindUserByUsername(us, username) ==
    IF \E i \in 1..Len(us) : us[i].username = username
    THEN CHOOSE i \in 1..Len(us) :
            /\ us[i].username = username
            /\ \A j \in 1..Len(us) : us[j].username = username => i <= j
    ELSE NULL

\* db.User.create(record): the username is unique, the password column
\* holds the hash of the value it is given.  Yields the new table, or the
\* old one when the unique constraint rejects the row.
UserCreate(us, record, salt) ==
    IF FindUserByUsername(us, record.username) # NULL
    THEN us
    ELSE Append(us, [username |-> record.username,
                     name |-> record.name,
                     password |-> hashPassword(record.password, salt),
                     editor |-> record.editor])

\* db.User.update({ username }, { where: { id } })
UserUpdate(us, userId, username) ==
    IF userId \notin 1..Len(us) THEN us
    ELSE IF \E j \in 1..Len(us) : j # userId /\ us[j].username = username
    THEN us
    ELSE [us EXCEPT ![userId].username = username]

\* user.createToken({ data }) at the store: the token string is unique.
TokenInsert(tks, row) ==
    IF \E i \in 1..Len(tks) : tks[i].data = row.data
    THEN tks
    ELSE Append(tks, row)

\* db.Token.findOne({ where: { data }, include: db.User })
FindTokenByData(tks, data) ==
    IF \E i \in 1..Len(tks) : tks[i].data = data
    THEN CHOOSE i \in 1..Len(tks) :
            /\ tks[i].data = data
            /\ \A j \in 1..Len(tks) : tks[j].data = data => i <= j
    ELSE NULL

(***************************************************************************)
(* crud.mjs: users and tokens                                              *)
(***************************************************************************)
NoResp ==
    [op |-> "none", username |-> "", password |-> EmptyString,
     id |-> NULL, error |-> "", verifyCalls |-> 0]

\* createUser whose caller receives the stored column instead of the
\* generated password.
createUser_returnsStored(us, username, name, isEditor, password, salt) ==
    LET us2 == UserCreate(us, [username |-> username, password |-> password,
                               name |-> name, editor |-> isEditor], salt)
    IN  IF us2 = us
        THEN [users |-> us,
              resp |-> [NoResp EXCEPT !.op = "createUser",
                            !.username = username,
                            !.error = "UniqueConstraintError"]]
        ELSE [users |-> us2,
              resp |-> [NoResp EXCEPT !.op = "createUser",
                            !.username = username,
                            !.password = us2[Len(us2)].password,
                            !.id = Len(us2)]]

\* crud.mjs createUser: the new table and the value returned to the caller
\* ({ user, password }), password being what randomPassword() produced.
createUser(us, username, name, isEditor, password, salt) ==
    LET us2 == UserCreate(us, [username |-> username, password |-> password,
                               name |-> name, editor |-> isEditor], salt)
    IN  IF us2 = us
        THEN [users |-> us,
              resp |-> [NoResp EXCEPT !.op = "createUser",
                            !.username = username,
                            !.error = "UniqueConstraintError"]]
        ELSE [users |-> us2,
              resp |-> [NoResp EXCEPT !.op = "createUser",
                            !.username = username,
                            !.password = password,
                            !.id = Len(us2)]]

\* loginUser that answers null for an unknown username without verifying.
loginUser_shortCircuit(us, username, password) ==
    LET user == FindUserByUsername(us, username)
    IN  IF user = NULL
        THEN [NoResp EXCEPT !.op = "loginUser", !.username = username,
                            !.password = password]
        ELSE [NoResp EXCEPT !.op = "loginUser", !.username = username,
                            !.password = password,
                            !.verifyCalls = 1,
                            !.id = IF comparePasswords(password, us[user].password)
                                   THEN user ELSE NULL]

\* crud.mjs loginUser: findOne, then comparePasswords(password,
\* user?.password || ''), then the user or null.
loginUser(us, username, password) ==
    LET user == FindUserByUsername(us, username)
        hash == IF user # NULL /\ us[user].password # EmptyString
                THEN us[user].password ELSE EmptyString
        match == comparePasswords(password, hash)
    IN  [NoResp EXCEPT !.op = "loginUser", !.username = username,
                       !.password = password,
                       !.verifyCalls = 1,
                       !.id = IF match THEN user ELSE NULL]

\* createToken that creates the row through the Token model, without the
\* owning user.
createToken_noOwner(tks, userId, data) ==
    TokenInsert(tks, [data |-> data, userId |-> NULL])

\* crud.mjs createToken: user.createToken({ data }).
createToken(tks, userId, data) ==
    TokenInsert(tks, [data |-> data, userId |-> userId])

CreateUser ==
    /\ Len(users) < MaxUsers
    /\ \E username \in Usernames, name \in Names, isEditor \in BOOLEAN,
          password \in randomPassword, salt \in Salts :
          LET r == createUser(users, username, name, isEditor, password, salt)
          IN  /\ users' = r.users
              /\ resp' = r.resp
              /\ issued' = IF r.resp.error = ""
                           THEN issued \cup {[id |-> r.resp.id,
                                              username |-> username,
                                              password |-> r.resp.password]}
                           ELSE issued
    /\ UNCHANGED <<updates, tokens, tags, posts, walk, images, req>>

\* crud.mjs updateUsername (the email it also writes is read by no
\* operation)
UpdateUsername ==
    /\ \E userId \in 1..MaxUsers, username \in Usernames :
          /\ users' = UserUpdate(users, userId, username)
          /\ resp' = [NoResp EXCEPT !.op = "updateUsername",
                          !.username = username, !.id = userId,
                          !.error = IF /\ userId \in UserIds
                                       /\ \E j \in UserIds :
                                            j # userId /\ users[j].username = username
                                    THEN "UniqueConstraintError" ELSE ""]
    /\ UNCHANGED <<updates, tokens, issued, tags, posts, walk, images, req>>

LoginUser ==
    /\ \E username \in Usernames, password \in Secrets \cup {EmptyString} :
          resp' = loginUser(users, username, password)
    /\ UNCHANGED <<updates, users, tokens, issued, tags, posts, walk, images, req>>

CreateToken ==
    /\ Len(tokens) < MaxTokens
    /\ \E userId \in UserIds, data \in hashingCreateToken :
          /\ tokens' = createToken(tokens, userId, data)
          /\ resp' = [NoResp EXCEPT !.op = "createToken", !.password = data,
                          !.id = userId,
                          !.error = IF tokens' = tokens
                                    THEN "UniqueConstraintError" ELSE ""]
    /\ UNCHANGED <<updates, users, issued, tags, posts, walk, images, req>>

\* crud.mjs getTokenByData: the owner of the token found, or NULL.
GetTokenByData ==
    /\ \E data \in Secrets :
          LET t == FindTokenByData(tokens, data)
          IN  resp' = [NoResp EXCEPT !.op = "getTokenByData",
                           !.password = data,
                           !.id = IF t = NULL THEN NULL ELSE tokens[t].userId]
    /\ UNCHANGED <<updates, users, tokens, issued, tags, posts, walk, images, req>>

\* crud.mjs getUserById (getAllUsers is the same read over every id)
GetUserById ==
    /\ \E userId \in 1..MaxUsers :
          resp' = [NoResp EXCEPT !.op = "getUserById",
                       !.id = IF userId \in UserIds THEN userId ELSE NULL,
                       !.username = IF userId \in UserIds
                                    THEN users[userId].username ELSE ""]
    /\ UNCHANGED <<updates, users, tokens, issued, tags, posts, walk, images, req>>

(***************************************************************************)
(* The store (models/index.mjs): tags, posts                               *)
(***************************************************************************)
\* What a fetched Tag instance carries of its row: id and parentTagId.
NoNode == [id |-> NULL, parentTagId |-> NULL]

\* db.Tag.findByPk(id) / tag.getParentTag(): the row as it is now, or null.
TagFindByPk(tgs, id) ==
    IF id \in 1..Len(tgs)
    THEN [id |-> id, parentTagId |-> tgs[id].parentTagId]
    ELSE NoNode

\* db.Tag.update({ title, parentTagId }, { where: { id } }); parentTagId is
\* a nullable foreign key to an existing tag.
TagUpdate(tgs, tagId, title, parentTagId) ==
    IF tagId \in 1..Len(tgs)
    THEN [tgs EXCEPT ![tagId] = [title |-> title, parentTagId |-> parentTagId]]
    ELSE tgs

SeedUsers ==
    << [username |-> "alice", name |-> "n",
        password |-> hashPassword(HexString(1), 1), editor |-> TRUE],
       [username |-> "bob", name |-> "n",
        password |-> hashPassword(HexString(2), 1), editor |-> FALSE] >>

\* The posts table: no operation of crud.mjs writes it.
SeedPosts(n) ==
    << [authorId |-> 1, tagId |-> n, title |-> "p1"],
       [authorId |-> 2, tagId |-> 1, title |-> "p2"] >>

(***************************************************************************)
(* The parent relation                                                     *)
(***************************************************************************)
RECURSIVE AncestorSet(_, _, _)
AncestorSet(tgs, id, fuel) ==
    IF fuel = 0 \/ id \notin 1..Len(tgs) THEN {}
    ELSE IF tgs[id].parentTagId = NULL THEN {}
    ELSE {tgs[id].parentTagId}
            \cup AncestorSet(tgs, tgs[id].parentTagId, fuel - 1)

IsOwnAncestor(tgs, id) == id \in AncestorSet(tgs, id, Len(tgs))

Acyclic(tgs) == \A id \in 1..Len(tgs) : ~IsOwnAncestor(tgs, id)

LeadsIntoCycle(tgs, id) ==
    \E a \in {id} \cup AncestorSet(tgs, id, Len(tgs)) : IsOwnAncestor(tgs, a)

\* The ancestors of id, nearest first.
RECURSIVE AncestorChain(_, _, _)
AncestorChain(tgs, id, fuel) ==
    IF fuel = 0 \/ id \notin 1..Len(tgs) THEN <<>>
    ELSE IF tgs[id].parentTagId = NULL THEN <<>>
    ELSE <<tgs[id].parentTagId>>
            \o AncestorChain(tgs, tgs[id].parentTagId, fuel - 1)

HasRepeat(seq) == \E i, j \in 1..Len(seq) : i < j /\ seq[i] = seq[j]

(***************************************************************************)
(* crud.mjs: tags and posts.  A read that resolves ancestors is a call in  *)
(* progress (walk): the node getParentsTreeUp is at, the ParentTag         *)
(* references attached so far to the current leaf (chain, nearest first),  *)
(* the tags still to resolve (queue) and the leaves already resolved.      *)
(***************************************************************************)
NoWalk ==
    [op |-> "none", status |-> "idle", leaf |-> NULL, cur |-> NoNode,
     chain |-> <<>>, queue |-> <<>>, results |-> <<>>]

\* getParentsTreeUp that tests the ParentTag association, which is not
\* loaded yet, instead of parentTagId.
getParentsTreeUp_testsAssociation(tag, tgs) == NoNode

\* crud.mjs getParentsTreeUp, one level: the ParentTag it attaches to tag
\* and recurses into, or null when it returns.
getParentsTreeUp(tag, tgs) ==
    IF tag.id # NULL /\ tag.parentTagId # NULL
    THEN TagFindByPk(tgs, tag.parentTagId)
    ELSE NoNode

\* crud.mjs getTagById up to the call of getParentsTreeUp.
getTagById(tgs, tagId) ==
    LET tag == TagFindByPk(tgs, tagId)
    IN  [NoWalk EXCEPT !.op = "getTagById", !.status = "walking",
                       !.leaf = tag.id, !.cur = tag]

\* crud.mjs getPostById up to the call of getParentsTreeUp: findByPk, then
\* post.Tag, which throws a TypeError when findByPk gave null.
getPostById(pts, tgs, postId) ==
    IF postId \in 1..Len(pts)
    THEN LET tag == TagFindByPk(tgs, pts[postId].tagId)
         IN  [NoWalk EXCEPT !.op = "getPostById", !.status = "walking",
                            !.leaf = tag.id, !.cur = tag]
    ELSE [NoWalk EXCEPT !.op = "getPostById", !.status = "TypeError"]

\* crud.mjs getAllPosts up to the first call of getParentsTreeUp: findAll
\* with each post's Tag included.
getAllPosts(pts, tgs) ==
    LET nodes == [i \in 1..Len(pts) |-> TagFindByPk(tgs, pts[i].tagId)]
    IN  IF Len(pts) = 0
        THEN [NoWalk EXCEPT !.op = "getAllPosts", !.status = "done"]
        ELSE [NoWalk EXCEPT !.op = "getAllPosts", !.status = "walking",
                            !.leaf = nodes[1].id, !.cur = nodes[1],
                            !.queue = Tail(nodes)]

WalkFree == walk.status # "walking"

\* crud.mjs updateTag
UpdateTag ==
    /\ updates < MaxUpdates
    /\ \E tagId \in 1..Len(tags), title \in Titles,
          parentTagId \in {NULL} \cup (1..Len(tags)) :
          tags' = TagUpdate(tags, tagId, title, parentTagId)
    /\ updates' = updates + 1
    /\ UNCHANGED <<users, tokens, issued, resp, posts, walk, images, req>>

\* crud.mjs getAllTags
GetAllTags ==
    /\ WalkFree
    /\ walk' = [NoWalk EXCEPT !.op = "getAllTags", !.status = "done",
                    !.results = [i \in 1..Len(tags) |->
                                    [leaf |-> i, chain |-> <<>>]]]
    /\ UNCHANGED <<updates, users, tokens, issued, resp, tags, posts, images, req>>

GetTagById ==
    /\ WalkFree
    /\ \E tagId \in 1..(Len(tags) + 1) : walk' = getTagById(tags, tagId)
    /\ UNCHANGED <<updates, users, tokens, issued, resp, tags, posts, images, req>>

GetPostById ==
    /\ WalkFree
    /\ \E postId \in 1..(Len(posts) + 1) :
          walk' = getPostById(posts, tags, postId)
    /\ UNCHANGED <<updates, users, tokens, issued, resp, tags, posts, images, req>>

GetAllPosts ==
    /\ WalkFree
    /\ walk' = getAllPosts(posts, tags)
    /\ UNCHANGED <<updates, users, tokens, issued, resp, tags, posts, images, req>>

\* getParentsTreeUp fetches the parent, attaches it and recurses into it.
WalkStep ==
    /\ walk.status = "walking"
    /\ Len(walk.chain) < MaxDepth
    /\ LET parent == getParentsTreeUp(walk.cur, tags)
       IN  /\ parent.id # NULL
           /\ walk' = [walk EXCEPT !.chain = Append(@, parent.id),
                                   !.cur = parent]
    /\ UNCHANGED <<updates, users, tokens, issued, resp, tags, posts, images, req>>

\* getParentsTreeUp returns to its caller, which goes on to the next post
\* (getAllPosts) or returns.
WalkReturn ==
    /\ walk.status = "walking"
    /\ getParentsTreeUp(walk.cur, tags).id = NULL
    /\ LET done == Append(walk.results,
                          [leaf |-> walk.leaf, chain |-> walk.chain])
       IN  walk' = IF walk.queue = <<>>
                   THEN [walk EXCEPT !.status = "done", !.results = done,
                                     !.cur = NoNode]
                   ELSE [walk EXCEPT !.results = done,
                                     !.leaf = Head(walk.queue).id,
                                     !.cur = Head(walk.queue),
                                     !.chain = <<>>,
                                     !.queue = Tail(walk.queue)]
    /\ UNCHANGED <<updates, users, tokens, issued, resp, tags, posts, images, req>>

(***************************************************************************)
(* routes/posts.mjs.  A request in progress (req): the route, the user the *)
(* request's token resolved to (req.auth.User), the path parameter, the    *)
(* body (the fields present, title, photos), the position in the route's   *)
(* middleware stack, the middleware that has run and the response status   *)
(* (0 while no response has been sent).                                    *)
(***************************************************************************)
NoReq ==
    [route |-> "none", principal |-> NULL, postId |-> NULL, fields |-> {},
     title |-> "", photos |-> <<>>, pos |-> 0, ran |-> <<>>,
     awaiting |-> FALSE, status |-> 0]

RequiredFields == {"title", "tagId", "content"}

Bodies == {{}, {"title"}, RequiredFields}

PhotoLists == {<<>>, <<"img1">>}

\* The functions crud.mjs exports; crud.<name>(...) with any other name is
\* a call of undefined, a TypeError.
CrudExports ==
    {"getAllUsers", "getUserById", "updateUsername", "createUser",
     "loginUser", "getTokenByData", "createToken", "getAllTags",
     "getTagById", "updateTag", "getAllPosts", "getPostById"}

\* POST /posts with the field validation registered before the editor
\* guard.
RouteStack_fieldsFirst(route) ==
    CASE route = "GET /posts" -> <<"handler">>
      [] route = "POST /posts" -> <<"requireField", "editorOnly", "handler">>
      [] route = "GET /posts/:postId" -> <<"authorOnly", "handler">>
      [] route = "PUT /posts/:postId" -> <<"authorOnly", "handler">>
      [] OTHER -> <<>>

\* The middleware each router.<method>(path, ...) call registers, in order.
RouteStack(route) ==
    CASE route = "GET /posts" -> <<"handler">>
      [] route = "POST /posts" -> <<"editorOnly", "requireField", "handler">>
      [] route = "GET /posts/:postId" -> <<"authorOnly", "handler">>
      [] route = "PUT /posts/:postId" -> <<"authorOnly", "handler">>
      [] OTHER -> <<>>

ReqFree == req.route = "none" \/ req.status # 0

\* The middleware or handler the request is at, "" when it has been
\* answered.
At(r) ==
    IF r.status = 0 /\ r.pos \in 1..Len(RouteStack(r.route))
    THEN RouteStack(r.route)[r.pos] ELSE ""

Passed(r, name) == [r EXCEPT !.ran = Append(@, name), !.pos = @ + 1]

Answered(r, name, status) ==
    [r EXCEPT !.ran = Append(@, name), !.status = status, !.awaiting = FALSE]

RequestGetPosts ==
    /\ ReqFree /\ WalkFree
    /\ \E principal \in UserIds :
          req' = [NoReq EXCEPT !.route = "GET /posts",
                               !.principal = principal, !.pos = 1]
    /\ UNCHANGED <<users, tokens, issued, resp, tags, updates, posts, walk, images>>

RequestPostPosts ==
    /\ ReqFree /\ WalkFree
    /\ \E principal \in UserIds, fields \in Bodies, photos \in PhotoLists :
          req' = [NoReq EXCEPT !.route = "POST /posts",
                               !.principal = principal, !.fields = fields,
                               !.title = "new", !.photos = photos, !.pos = 1]
    /\ UNCHANGED <<users, tokens, issued, resp, tags, updates, posts, walk, images>>

RequestGetPost ==
    /\ ReqFree /\ WalkFree
    /\ \E principal \in UserIds, postId \in 1..(Len(posts) + 1) :
          req' = [NoReq EXCEPT !.route = "GET /posts/:postId",
                               !.principal = principal, !.postId = postId,
                               !.pos = 1]
    /\ UNCHANGED <<users, tokens, issued, resp, tags, updates, posts, walk, images>>

RequestPutPost ==
    /\ ReqFree /\ WalkFree
    /\ \E principal \in UserIds, postId \in 1..(Len(posts) + 1) :
          req' = [NoReq EXCEPT !.route = "PUT /posts/:postId",
                               !.principal = principal, !.postId = postId,
                               !.fields = {"title"}, !.title = "new",
                               !.pos = 1]
    /\ UNCHANGED <<users, tokens, issued, resp, tags, updates, posts, walk, images>>

\* middleware/editor.mjs: allow iff the principal's editor flag is set.
EditorOnly ==
    /\ At(req) = "editorOnly"
    /\ req' = IF users[req.principal].editor
              THEN Passed(req, "editorOnly")
              ELSE Answered(req, "editorOnly", 403)
    /\ UNCHANGED <<users, tokens, issued, resp, tags, updates, posts, walk, images>>

\* middleware/fields.mjs: requireField('title', 'tagId', 'content').
RequireField ==
    /\ At(req) = "requireField"
    /\ req' = IF RequiredFields \subseteq req.fields
              THEN Passed(req, "requireField")
              ELSE Answered(req, "requireField", 400)
    /\ UNCHANGED <<users, tokens, issued, resp, tags, updates, posts, walk, images>>

\* middleware/author.mjs: allow iff the principal is the Author of the post
\* the path names.  For a post that does not exist the guard may answer
\* forbidden or leave the answer to the handler.
AuthorOnly ==
    /\ At(req) = "authorOnly"
    /\ \/ /\ req.postId \in 1..Len(posts)
          /\ req' = IF posts[req.postId].authorId = req.principal
                    THEN Passed(req, "authorOnly")
                    ELSE Answered(req, "authorOnly", 403)
       \/ /\ req.postId \notin 1..Len(posts)
          /\ req' = Answered(req, "authorOnly", 403)
       \/ /\ req.postId \notin 1..Len(posts)
          /\ req' = Passed(req, "authorOnly")
    /\ UNCHANGED <<users, tokens, issued, resp, tags, updates, posts, walk, images>>

\* GET /posts, up to the await of crud.getAllPosts.
HandleGetPosts ==
    /\ req.route = "GET /posts" /\ At(req) = "handler" /\ ~req.awaiting
    /\ walk' = getAllPosts(posts, tags)
    /\ req' = [req EXCEPT !.ran = Append(@, "handler"), !.awaiting = TRUE]
    /\ UNCHANGED <<users, tokens, issued, resp, tags, updates, posts, images>>

\* GET /posts, after the await: res.send(posts.map(...)).
RespondGetPosts ==
    /\ req.route = "GET /posts" /\ req.awaiting /\ walk.status = "done"
    /\ req' = [req EXCEPT !.awaiting = FALSE, !.status = 200]
    /\ UNCHANGED <<users, tokens, issued, resp, tags, updates, posts, walk, images>>

\* images.saveImage applied to every photo of the body.
SavedImages(photos) == {photos[i] : i \in 1..Len(photos)}

\* POST /posts: the photos are saved, then crud.createPost is called, which
\* throws unless crud.mjs exports it; the exception goes through
\* asyncHandler to the error handler.
HandlePostPosts ==
    /\ req.route = "POST /posts" /\ At(req) = "handler"
    /\ images' = images \cup SavedImages(req.photos)
    /\ IF "createPost" \in CrudExports
       THEN /\ posts' = Append(posts, [authorId |-> req.principal,
                                       tagId |-> 1, title |-> req.title])
            /\ req' = Answered(req, "handler", 200)
       ELSE /\ posts' = posts
            /\ req' = Answered(req, "handler", 500)
    /\ UNCHANGED <<users, tokens, issued, resp, tags, updates, walk>>

\* GET /posts/:postId, up to the await of crud.getPostById; an exception
\* goes through asyncHandler to the error handler.
HandleGetPost ==
    /\ req.route = "GET /posts/:postId" /\ At(req) = "handler"
    /\ ~req.awaiting
    /\ walk' = getPostById(posts, tags, req.postId)
    /\ req' = IF walk'.status = "TypeError"
              THEN Answered(req, "handler", 500)
              ELSE [req EXCEPT !.ran = Append(@, "handler"),
                               !.awaiting = TRUE]
    /\ UNCHANGED <<users, tokens, issued, resp, tags, updates, posts, images>>

\* GET /posts/:postId, after the await: if (post) send it, else 404.
RespondGetPost ==
    /\ req.route = "GET /posts/:postId" /\ req.awaiting
    /\ walk.status = "done"
    /\ req' = [req EXCEPT !.awaiting = FALSE,
                   !.status = IF req.postId \in 1..Len(posts)
                              THEN 200 ELSE 404]
    /\ UNCHANGED <<users, tokens, issued, resp, tags, updates, posts, walk, images>>

\* PUT /posts/:postId: crud.updatePost is called, which throws unless
\* crud.mjs exports it, then res.send().
HandlePutPost ==
    /\ req.route = "PUT /posts/:postId" /\ At(req) = "handler"
    /\ IF "updatePost" \in CrudExports
       THEN /\ posts' = IF req.postId \in 1..Len(posts)
                        THEN [posts EXCEPT ![req.postId].title = req.title]
                        ELSE posts
            /\ req' = Answered(req, "handler", 200)
       ELSE /\ posts' = posts
            /\ req' = Answered(req, "handler", 500)
    /\ UNCHANGED <<users, tokens, issued, resp, tags, updates, walk, images>>

\* The credential path: users are created, renamed and logged in.
InitAuth ==
    /\ users = <<>>
    /\ tokens = <<>>
    /\ issued = {}
    /\ resp = NoResp
    /\ tags = <<>>
    /\ updates = 0
    /\ posts = <<>>
    /\ walk = NoWalk
    /\ images = {}
    /\ req = NoReq

NextAuth ==
    \/ CreateUser
    \/ UpdateUsername
    \/ LoginUser
    \/ GetUserById

SpecAuth == InitAuth /\ [][NextAuth]_vars

\* The token store: tokens are issued to and looked up for existing users.
InitTokens ==
    /\ users = SeedUsers
    /\ tokens = <<>>
    /\ issued = {}
    /\ resp = NoResp
    /\ tags = <<>>
    /\ updates = 0
    /\ posts = <<>>
    /\ walk = NoWalk
    /\ images = {}
    /\ req = NoReq

NextTokens ==
    \/ CreateToken
    \/ GetTokenByData

SpecTokens == InitTokens /\ [][NextTokens]_vars

TagRows(n) == [1..n -> [title : {"t0"}, parentTagId : 0..n]]

InitTags ==
    /\ users = SeedUsers
    /\ tokens = <<>>
    /\ issued = {}
    /\ resp = NoResp
    /\ tags \in {t \in TagRows(NumTags) : Acyclic(t)}
    /\ updates = 0
    /\ posts = SeedPosts(NumTags)
    /\ walk = NoWalk
    /\ images = {}
    /\ req = NoReq

NextTags ==
    \/ UpdateTag
    \/ GetAllTags
    \/ GetTagById
    \/ GetPostById
    \/ GetAllPosts
    \/ WalkStep
    \/ WalkReturn

SpecTags == InitTags /\ [][NextTags]_vars

\* The resolver over every parent relation the tags table can hold.
InitForest ==
    /\ users = SeedUsers
    /\ tokens = <<>>
    /\ issued = {}
    /\ resp = NoResp
    /\ tags \in TagRows(ForestTags)
    /\ updates = 0
    /\ posts = SeedPosts(ForestTags)
    /\ walk = NoWalk
    /\ images = {}
    /\ req = NoReq

NextForest ==
    \/ GetTagById
    \/ GetPostById
    \/ GetAllPosts
    \/ WalkStep
    \/ WalkReturn

SpecForest == InitForest /\ [][NextForest]_vars

InitRoutes ==
    /\ users = SeedUsers
    /\ tokens = <<>>
    /\ issued = {}
    /\ resp = NoResp
    /\ tags \in {t \in TagRows(NumTags) : Acyclic(t)}
    /\ updates = 0
    /\ posts = SeedPosts(NumTags)
    /\ walk = NoWalk
    /\ images = {}
    /\ req = NoReq

NextRoutes ==
    \/ RequestGetPosts
    \/ RequestPostPosts
    \/ RequestGetPost
    \/ RequestPutPost
    \/ EditorOnly
    \/ RequireField
    \/ AuthorOnly
    \/ HandleGetPosts
    \/ RespondGetPosts
    \/ HandlePostPosts
    \/ HandleGetPost
    \/ RespondGetPost
    \/ HandlePutPost
    \/ WalkStep
    \/ WalkReturn

SpecRoutes == InitRoutes /\ [][NextRoutes]_vars

(***************************************************************************)
(* Properties of the credential path (SpecAuth)                            *)
(***************************************************************************)

\* C1: after createUser the password column of the new user holds a hash of
\* the generated password, never the plaintext returned to the caller, and
\* no stored password equals a plaintext that createUser returned.
C1_StoredPasswordIsHash ==
    /\ (resp.op = "createUser" /\ resp.error = "") =>
          /\ users[resp.id].password.kind = "bcrypt"
          /\ users[resp.id].password # resp.password
          /\ users[resp.id].password.text = resp.password.text
    /\ \A i \in UserIds : \A s \in issued : users[i].password # s.password

C1_Witness ==
    /\ resp.op = "createUser"
    /\ resp.error = ""
    /\ resp.password \in Secrets
    /\ resp.id \in UserIds

\* C2: loginUser runs exactly one password verification on every path, and
\* answers null both for an unknown username and for a wrong password.
C2_LoginAlwaysVerifies ==
    resp.op = "loginUser" =>
        /\ resp.verifyCalls = 1
        /\ (\A i \in UserIds : users[i].username # resp.username)
              => resp.id = NULL
        /\ \A i \in UserIds :
              (/\ users[i].username = resp.username
               /\ users[i].password.text # resp.password.text)
              => resp.id = NULL

C2_Witness ==
    /\ resp.op = "loginUser"
    /\ Len(users) >= 1
    /\ \A i \in UserIds : users[i].username # resp.username
    /\ resp.password \in Secrets
    /\ resp.id = NULL
    /\ resp.verifyCalls = 1

\* C9: no two stored tokens carry the same token string, every stored token
\* belongs to exactly one existing user, an issue whose fresh string is
\* already stored is rejected, and an accepted issue stores the string under
\* the user it was issued to.
C9_TokenStringsUnique ==
    /\ (resp.op = "createToken" /\ resp.error # "") =>
          \E i \in 1..Len(tokens) : tokens[i].data = resp.password
    /\ (resp.op = "createToken" /\ resp.error = "") =>
          tokens[Len(tokens)] = [data |-> resp.password, userId |-> resp.id]
    /\ \A i, j \in 1..Len(tokens) :
          tokens[i].data = tokens[j].data => i = j
    /\ \A i \in 1..Len(tokens) : tokens[i].userId \in UserIds
    /\ \A d \in Secrets :
          Cardinality({tokens[i].userId : i \in {k \in 1..Len(tokens) :
                                                   tokens[k].data = d}}) <= 1

C9_Witness ==
    /\ resp.op = "createToken"
    /\ resp.error = "UniqueConstraintError"
    /\ \E i \in 1..Len(tokens) :
          tokens[i].data = resp.password /\ tokens[i].userId # resp.id

\* C10 as stated: logging in with a username and the password createUser
\* returned for it yields the user that createUser created.
C10_RoundTripAsStated ==
    resp.op = "loginUser" =>
        \A s \in issued :
            (s.username = resp.username /\ s.password = resp.password)
            => resp.id = s.id

\* C10 amended: the round trip holds while the created user still carries
\* the username it was created with (updateUsername may have renamed it);
\* and loginUser never returns a user under another username.
C10_RoundTrip ==
    resp.op = "loginUser" =>
        /\ \A s \in issued :
              (/\ s.username = resp.username
               /\ s.password = resp.password
               /\ users[s.id].username = s.username)
              => resp.id = s.id
        /\ resp.id # NULL => users[resp.id].username = resp.username

C10_Witness ==
    /\ resp.op = "loginUser"
    /\ resp.id # NULL
    /\ \E s \in issued :
          /\ s.id = resp.id
          /\ s.username = resp.username
          /\ s.password = resp.password

(***************************************************************************)
(* Properties of the tag hierarchy (SpecTags, SpecForest)                  *)
(***************************************************************************)

\* C3: when the tag being resolved leads into a cycle of the parent
\* relation, the resolver stops with CycleDetected as soon as it comes back
\* to a tag it has already visited.
C3_CycleDetected ==
    (/\ walk.op \in {"getTagById", "getPostById", "getAllPosts"}
     /\ walk.leaf # NULL
     /\ LeadsIntoCycle(tags, walk.leaf)
     /\ HasRepeat(<<walk.leaf>> \o walk.chain))
    => walk.status = "CycleDetected"

\* C4: the parent relation of the tags table is acyclic in every reachable
\* state.
C4_ParentRelationAcyclic == Acyclic(tags)

\* C5: in an acyclic forest every resolved tag carries exactly its
\* ancestors, nearest first, whichever read resolved it, and the last node
\* of the chain has no parent.
C5_ChainIsAncestors ==
    Acyclic(tags) =>
        \A i \in 1..Len(walk.results) :
            LET r == walk.results[i]
                last == IF r.chain = <<>> THEN r.leaf ELSE r.chain[Len(r.chain)]
            IN  r.leaf # NULL =>
                    /\ r.chain = AncestorChain(tags, r.leaf, Len(tags))
                    /\ tags[last].parentTagId = NULL

C5_Witness ==
    /\ Acyclic(tags)
    /\ walk.op = "getAllPosts"
    /\ walk.status = "done"
    /\ Len(walk.results) = Len(posts)
    /\ Len(walk.results[1].chain) = 3
    /\ ~HasRepeat(<<walk.results[1].leaf>> \o walk.results[1].chain)
    /\ walk.results[2].chain = <<>>

(***************************************************************************)
(* Properties of the /posts router (SpecRoutes)                            *)
(***************************************************************************)

\* C6: on POST /posts by a principal that is not an editor, only the
\* editor guard runs, the answer is 403 and nothing is written: no image
\* is saved, no post is created, the store is unchanged.
C6_EditorGuardFirst ==
    [][(req'.route = "POST /posts" /\ ~users[req'.principal].editor) =>
          /\ \A i \in 1..Len(req'.ran) : req'.ran[i] = "editorOnly"
          /\ req'.ran # <<>> => req'.status = 403
          /\ req'.status \in {0, 403}
          /\ images' = images
          /\ posts' = posts
          /\ users' = users
          /\ tags' = tags
          /\ tokens' = tokens]_vars

C6_Witness ==
    /\ req.route = "POST /posts"
    /\ ~users[req.principal].editor
    /\ req.ran = <<"editorOnly">>
    /\ req.status = 403
    /\ req.fields # RequiredFields
    /\ req.photos # <<>>
    /\ images = {}

\* C7: PUT /posts/{postId} on an existing post answers 403 when the
\* principal is not the post's Author, and succeeds, with the post's
\* attributes updated, when it is.
C7_AuthorOnlyUpdate ==
    (/\ req.route = "PUT /posts/:postId"
     /\ req.postId \in 1..Len(posts)
     /\ req.status # 0)
    => IF posts[req.postId].authorId = req.principal
       THEN req.status = 200 /\ posts[req.postId].title = req.title
       ELSE req.status = 403 /\ posts = SeedPosts(NumTags)

\* C8: getPostById for an id that has no post returns null without raising,
\* and GET /posts/{postId}, when it reaches its handler for such an id,
\* answers 404.
C8_MissingPostIsNotFound ==
    /\ walk.op = "getPostById" => walk.status # "TypeError"
    /\ (/\ req.route = "GET /posts/:postId"
        /\ req.postId \notin 1..Len(posts)
        /\ req.status # 0
        /\ \E i \in 1..Len(req.ran) : req.ran[i] = "handler")
       => req.status = 404

====
